---- MODULE Spec2Model ----
(***************************************************************************)
(* Model of mcp-server-mysql-pool (src/main.py): the lifespan that owns    *)
(* the connection pool, and the three request handlers list_resources,     *)
(* read_resource and call_tool that lease a connection from it.            *)
(*                                                                         *)
(* Strings the code inspects character by character (the sql argument,     *)
(* the resource uri) are sequences of one-character strings.               *)
(***************************************************************************)
EXTENDS Integers, Sequences, FiniteSets, TLC

\* ---------------------------------------------------------------- bounds
NumReq == 2
MaxPoolSize == 2

Reqs == 1..NumReq

\* ------------------------------------------------------- program constants
DefaultPoolSize == 10
MinSize == 1
SchemePrefixLen == 8

VARIABLES env, lpc, db_config, pool, req, pc, conn, acc, res

vars == <<env, lpc, db_config, pool, req, pc, conn, acc, res>>

\* ------------------------------------------------------------ characters
UpperChars == <<"A","B","C","D","E","F","G","H","I","J","K","L","M",
                "N","O","P","Q","R","S","T","U","V","W","X","Y","Z">>
LowerChars == <<"a","b","c","d","e","f","g","h","i","j","k","l","m",
                "n","o","p","q","r","s","t","u","v","w","x","y","z">>

\* str.lower() on one character
LowerChar(c) ==
    IF \E i \in 1..Len(UpperChars) : UpperChars[i] = c
    THEN LowerChars[CHOOSE i \in 1..Len(UpperChars) : UpperChars[i] = c]
    ELSE c

\* str.lower()
Lower(s) == [i \in 1..Len(s) |-> LowerChar(s[i])]

\* str.startswith(p)
StartsWith(s, p) == Len(s) >= Len(p) /\ SubSeq(s, 1, Len(p)) = p

sSelect   == <<"s","e","l","e","c","t">>
sShow     == <<"s","h","o","w">>
sDescribe == <<"d","e","s","c","r","i","b","e">>
sMysql    == <<"m","y","s","q","l",":","/","/">>
SCHEMA_PATH == <<"s","c","h","e","m","a">>

\* ------------------------------------------------------------ python values
\* A database value: its type tag and its str() form.
NoneV == [t |-> "none", s |-> "None"]
IntV(s) == [t |-> "int", s |-> s]
StrV(s) == [t |-> "str", s |-> s]

\* str(value)
Str(v) == v.s

\* bool(value): None, 0 and the empty string are falsy
Truthy(v) ==
    CASE v.t = "none" -> FALSE
      [] v.t = "int"  -> v.s # "0"
      [] OTHER        -> v.s # ""

\* an exception: its class and the fragments of str(e)
Exc(type, text) == [type |-> type, text |-> text]
NoExc == Exc("", <<>>)

\* the outcome of a handler (or, inside the try block, of its body)
Return(v) == [kind |-> "return", err |-> NoExc, value |-> v]
Raise(e)  == [kind |-> "raise", err |-> e, value |-> <<>>]
Cancelled == [kind |-> "cancelled", err |-> Exc("CancelledError", <<>>), value |-> <<>>]
NoRes     == [kind |-> "", err |-> NoExc, value |-> <<>>]

\* ------------------------------------------------------------ the database
DbError   == Exc("OperationalError", <<"(1146, \"Table doesn't exist\")">>)
ConnError == Exc("OperationalError", <<"(2003, \"Can't connect to MySQL server\")">>)
NoDescription == Exc("TypeError", <<"'NoneType' object is not iterable">>)

\* SHOW TABLES: rows of one value, in the database's order
TableLists == { <<>>, << <<"orders">>, <<"items">> >> }

\* DESCRIBE t: (field, type, null, key, default, extra) per column
ColumnSets ==
    { << <<StrV("id"), StrV("int"), StrV("NO"), StrV("PRI"), NoneV, StrV("auto_increment")>>,
         <<StrV("name"), StrV("varchar(10)"), StrV("YES"), StrV(""), StrV("x"), StrV("")>>,
         <<StrV("note"), StrV("varchar(10)"), StrV("NO"), StrV(""), StrV(""), StrV("")>> >> }

\* SHOW CREATE TABLE t: one row (table, ddl)
CreateRows == { <<StrV("t"), StrV("CREATE TABLE t (...)")>> }

\* SELECT * FROM t LIMIT 5
SampleSets ==
    { <<>>,
      << <<IntV("1"), StrV("x"), StrV("")>>, <<IntV("2"), NoneV, StrV("n")>> >> }

\* a query's result set: cursor.description and fetchall()
QueryResults ==
    { [description |-> << <<"1">> >>, rows |-> << <<IntV("1")>> >>],
      [description |-> << <<"id">>, <<"name">> >>, rows |-> <<>>] }

\* ------------------------------------------------------------ the pool
\* The pool is aiomysql's; it is modelled from the contract of the
\* ConnectionPool component: open, acquire, release, close.
NoPool == [maxsize |-> 0, conns |-> {}, free |-> {}, used |-> {},
           closing |-> FALSE, closed |-> FALSE]

PoolOpen(minsize, maxsize) ==
    [maxsize |-> maxsize, conns |-> 1..minsize, free |-> 1..minsize,
     used |-> {}, closing |-> FALSE, closed |-> FALSE]

PoolSize(p) == Cardinality(p.conns)

\* the connection a growing pool opens next
NewConn(p) == CHOOSE c \in 1..p.maxsize : c \notin p.conns

\* the connections acquire may hand out now: an idle one, else a new one
\* while the pool is below maxsize, else none (the caller suspends)
PoolLeasable(p) ==
    IF p.free # {} THEN p.free
    ELSE IF PoolSize(p) < p.maxsize THEN {NewConn(p)}
    ELSE {}

PoolLease(p, c) ==
    [p EXCEPT !.conns = @ \cup {c}, !.free = @ \ {c}, !.used = @ \cup {c}]

PoolRelease(p, c) ==
    [p EXCEPT !.used = @ \ {c}, !.free = @ \cup {c}]

PoolClose(p) == [p EXCEPT !.closing = TRUE]

PoolDrained(p) == p.used = {}

PoolWaitClosed(p) ==
    [p EXCEPT !.conns = {}, !.free = {}, !.closed = TRUE]

PoolClosedError == Exc("PoolClosed", <<"Cannot acquire connection after closing pool">>)

\* ------------------------------------------------------------ inputs
\* os.getenv of a variable: unset (None), empty, or a value;
\* MYSQL_POOL_SIZE is the empty set when unset, else the set of its number
EnvVals == {"<unset>", "", "x"}

\* bool() of an environment value
EnvTruthy(v) == v \notin {"<unset>", ""}

Envs == [user : EnvVals, password : EnvVals, db : EnvVals,
         pool_size : {{}} \cup {{n} : n \in 1..MaxPoolSize}]

SqlInputs ==
    { <<>>,
      <<" ">>,
      <<"s","e","l","e","c","t">>,
      <<"S","H","O","W">>,
      <<"D","e","s","c","r","i","b","e">>,
      <<" ","s","e","l","e","c","t">>,
      <<"d","r","o","p">>,
      <<"s","e","l">> }

\* what a call of an unknown tool carries
OtherSqlInputs == { <<"d","r","o","p">>, <<"s","e","l","e","c","t">> }

UriInputs ==
    { <<"m","y","s","q","l",":","/","/","t","/","s","c","h","e","m","a">>,
      <<"m","y","s","q","l",":","/","/","t">>,
      <<"m","y","s","q","l",":","/","/","t","/","s","c","h","e","m","a","/","x">>,
      <<"m","y","s","q","l",":","/","/","t","/","d","a","t","a">>,
      <<"h","t","t","p",":","/","/","t","/","s","c","h","e","m","a">>,
      <<"m","y","s","q","l",":","/","/","/","s","c","h","e","m","a">> }

ToolNames == {"query", "other"}

NoReq == [op |-> "", name |-> "", has_sql |-> FALSE, sql |-> <<>>, uri |-> <<>>]

ListReqs == {[op |-> "list_resources", name |-> "", has_sql |-> FALSE,
              sql |-> <<>>, uri |-> <<>>]}
ReadReq(u) == [op |-> "read_resource", name |-> "", has_sql |-> FALSE,
               sql |-> <<>>, uri |-> u]
CallReq(n, q) == [op |-> "call_tool", name |-> n, has_sql |-> TRUE,
                  sql |-> q, uri |-> <<>>]
CallReqNoSql(n) == [op |-> "call_tool", name |-> n, has_sql |-> FALSE,
                    sql |-> <<>>, uri |-> <<>>]

\* every request of the bounded input sets
ReadReqs == {ReadReq(u) : u \in UriInputs}
CallReqs == {CallReq("query", q) : q \in SqlInputs}
            \cup {CallReq("other", q) : q \in OtherSqlInputs}
            \cup {CallReqNoSql(n) : n \in ToolNames}

\* the requests of the concurrent runs: one accepted and one rejected
\* request of each handler that validates
SomeReadReqs ==
    { ReadReq(<<"m","y","s","q","l",":","/","/","t","/","s","c","h","e","m","a">>),
      ReadReq(<<"m","y","s","q","l",":","/","/","t">>) }
SomeCallReqs ==
    { CallReq("query", <<"s","e","l","e","c","t">>),
      CallReq("query", <<"d","r","o","p">>),
      CallReqNoSql("other") }

\* a check that forgets the database name
ConfigCompleteNoDb(e) == EnvTruthy(e.user) /\ EnvTruthy(e.password)

\* ------------------------------------------------------------ lifespan
\* all([user, password, db])
ConfigComplete(e) ==
    EnvTruthy(e.user) /\ EnvTruthy(e.password) /\ EnvTruthy(e.db)

\* the dict get_db_config returns
get_db_config(e) ==
    [user |-> e.user, password |-> e.password, db |-> e.db,
     pool_size |-> IF e.pool_size = {} THEN DefaultPoolSize
                   ELSE CHOOSE n \in e.pool_size : TRUE]

NoConfig == [user |-> "", password |-> "", db |-> "", pool_size |-> 0]

\* a pool created one connection too large
MaxSizeArgOffByOne(c) == c.pool_size + 1

\* maxsize=db_config["pool_size"]
MaxSizeArg(c) == c.pool_size

Init ==
    /\ env \in Envs
    /\ lpc = "get_db_config"
    /\ db_config = NoConfig
    /\ pool = NoPool
    /\ req = [r \in Reqs |-> NoReq]
    /\ pc = [r \in Reqs |-> "none"]
    /\ conn = [r \in Reqs |-> 0]
    /\ acc = [r \in Reqs |-> <<>>]
    /\ res = [r \in Reqs |-> NoRes]

\* server_lifespan: db_config = get_db_config()
GetDbConfig ==
    /\ lpc = "get_db_config"
    /\ IF ConfigComplete(env)
       THEN /\ db_config' = get_db_config(env)
            /\ lpc' = "create_pool"
       ELSE /\ db_config' = db_config
            /\ lpc' = "config_invalid"
    /\ UNCHANGED <<env, pool, req, pc, conn, acc, res>>

\* server_lifespan: pool = await aiomysql.create_pool(...)
CreatePool ==
    /\ lpc = "create_pool"
    /\ \E ok \in BOOLEAN :
         IF ok
         THEN /\ pool' = PoolOpen(MinSize, MaxSizeArg(db_config))
              /\ lpc' = "serving"
         ELSE /\ pool' = pool
              /\ lpc' = "create_failed"
    /\ UNCHANGED <<env, db_config, req, pc, conn, acc, res>>

\* a finally block that does not call pool.close()
ClosePoolSkipped(p) == p

\* the finally block: pool.close()
ClosePool(p) == PoolClose(p)

\* wait_closed called but not awaited
WaitClosedNotAwaited(p) == TRUE

\* await pool.wait_closed(): returns once no connection is leased
WaitClosedReturns(p) == PoolDrained(p)

\* server_lifespan: the yield ends; pool.close() and the call of wait_closed
LifespanClose ==
    /\ lpc = "serving"
    /\ pool' = ClosePool(pool)
    /\ lpc' = "wait_closed"
    /\ UNCHANGED <<env, db_config, req, pc, conn, acc, res>>

\* server_lifespan: await pool.wait_closed() returns; "Connection pool closed."
WaitClosed ==
    /\ lpc = "wait_closed"
    /\ WaitClosedReturns(pool)
    /\ pool' = PoolWaitClosed(pool)
    /\ lpc' = "closed"
    /\ UNCHANGED <<env, db_config, req, pc, conn, acc, res>>

\* ------------------------------------------------------------ validation
\* a prefix test that looks at the first letter only
AllowedSqlFirstLetter(sql) ==
    \/ StartsWith(Lower(sql), <<"s">>)
    \/ StartsWith(Lower(sql), <<"d">>)

\* call_tool: the prefix test on sql.lower()
AllowedSql(sql) ==
    \/ StartsWith(Lower(sql), sSelect)
    \/ StartsWith(Lower(sql), sShow)
    \/ StartsWith(Lower(sql), sDescribe)

EmptyQuery    == Exc("ValueError", <<"SQL query is required.">>)
WriteRejected == Exc("ValueError", <<"Only SELECT queries are allowed.">>)
UnknownTool(name) == Exc("ValueError", <<"Tool '", name, "' not found.">>)

\* a test for the missing argument only: sql is None instead of not sql
CallCheckNoneOnly(rq) ==
    IF rq.name = "query"
    THEN IF ~rq.has_sql
         THEN Raise(EmptyQuery)
         ELSE IF ~AllowedSql(rq.sql)
              THEN Raise(WriteRejected)
              ELSE NoRes
    ELSE Raise(UnknownTool(rq.name))

\* the sql argument examined before the tool name
CallCheckSqlFirst(rq) ==
    IF ~rq.has_sql \/ rq.sql = <<>>
    THEN Raise(EmptyQuery)
    ELSE IF rq.name = "query"
         THEN IF ~AllowedSql(rq.sql) THEN Raise(WriteRejected) ELSE NoRes
         ELSE Raise(UnknownTool(rq.name))

\* call_tool before the try block: NoRes when the request goes on to acquire
CallCheck(rq) ==
    IF rq.name = "query"
    THEN IF ~rq.has_sql \/ rq.sql = <<>>
         THEN Raise(EmptyQuery)
         ELSE IF ~AllowedSql(rq.sql)
              THEN Raise(WriteRejected)
              ELSE NoRes
    ELSE Raise(UnknownTool(rq.name))

\* str.split("/")
RECURSIVE Split(_)
Split(s) ==
    IF \E i \in 1..Len(s) : s[i] = "/"
    THEN LET k == CHOOSE i \in 1..Len(s) :
                    s[i] = "/" /\ \A j \in 1..(i-1) : s[j] # "/"
         IN <<SubSeq(s, 1, k-1)>> \o Split(SubSeq(s, k+1, Len(s)))
    ELSE <<s>>

\* uri_str[8:].split("/")
PathComponents(uri) == Split(SubSeq(uri, SchemePrefixLen + 1, Len(uri)))

InvalidURI(uri) == Exc("ValueError", <<"Invalid URI: ">> \o uri)
InvalidSchemaPath(sp) == Exc("ValueError", <<"Invalid schema path: ">> \o sp)

\* a length test that lets longer paths through
ReadCheckAtLeastTwo(rq) ==
    IF ~StartsWith(rq.uri, sMysql)
    THEN Raise(InvalidURI(rq.uri))
    ELSE IF Len(PathComponents(rq.uri)) < 2
         THEN Raise(InvalidURI(rq.uri))
         ELSE IF PathComponents(rq.uri)[2] # SCHEMA_PATH
              THEN Raise(InvalidSchemaPath(PathComponents(rq.uri)[2]))
              ELSE NoRes

\* read_resource before the try block
ReadCheck(rq) ==
    IF ~StartsWith(rq.uri, sMysql)
    THEN Raise(InvalidURI(rq.uri))
    ELSE IF Len(PathComponents(rq.uri)) # 2
         THEN Raise(InvalidURI(rq.uri))
         ELSE IF PathComponents(rq.uri)[2] # SCHEMA_PATH
              THEN Raise(InvalidSchemaPath(PathComponents(rq.uri)[2]))
              ELSE NoRes

TableName(rq) == PathComponents(rq.uri)[1]

\* what the handler does before its try block
Check(rq) ==
    CASE rq.op = "call_tool"     -> CallCheck(rq)
      [] rq.op = "read_resource" -> ReadCheck(rq)
      [] OTHER                   -> NoRes

\* ------------------------------------------------------------ rendering
\* sep.join(cells), as the sequence of the joined fragments
RECURSIVE Join(_, _)
Join(cells, sep) ==
    IF Len(cells) = 0 THEN <<>>
    ELSE IF Len(cells) = 1 THEN <<cells[1]>>
    ELSE <<cells[1], sep>> \o Join(Tail(cells), sep)

\* "| " + " | ".join(cells) + " |\n"
Line(cells) == <<"| ">> \o Join(cells, " | ") \o <<" |\n">>

\* the concatenation of the lines of rows
RECURSIVE Lines(_)
Lines(rows) ==
    IF Len(rows) = 0 THEN <<>>
    ELSE Line([j \in 1..Len(rows[1]) |-> Str(rows[1][j])]) \o Lines(Tail(rows))

\* a table without its separator line
RenderNoSeparator(columns, rows) == Line(columns) \o Lines(rows)

\* call_tool: the markdown table of a result set
Render(columns, rows) ==
    Line(columns) \o Line([j \in 1..Len(columns) |-> "---"]) \o Lines(rows)

\* read_resource: default or 'NULL'
DefaultCell(default) == IF Truthy(default) THEN Str(default) ELSE "NULL"

\* read_resource: the rows of the columns table
RECURSIVE ColumnLines(_)
ColumnLines(columns) ==
    IF Len(columns) = 0 THEN <<>>
    ELSE LET c == columns[1]
         IN <<"| ", Str(c[1]), " | ", Str(c[2]), " | ", Str(c[3]), " | ", Str(c[4]),
              " | ", DefaultCell(c[5]), " | ", Str(c[6]), " |\n">>
            \o ColumnLines(Tail(columns))

\* read_resource: the schema document (<fence> stands for the three
\* backquotes of a fenced block)
Schema(table_name, columns, create_statement, sample_data) ==
    <<"## Table: ">> \o table_name \o <<"\n\n">>
    \o <<"### Columns:\n\n">>
    \o <<"| Field | Type | Null | Key | Default | Extra |\n">>
    \o <<"|-------|------|------|-----|---------|-------|\n">>
    \o ColumnLines(columns)
    \o <<"\n### Create Table SQL:\n\n<fence>sql\n", Str(create_statement), "\n<fence>\n">>
    \o <<"\n### Sample Data:\n\n">>
    \o Line([j \in 1..Len(columns) |-> Str(columns[j][1])])
    \o Line([j \in 1..Len(columns) |-> "---"])
    \o Lines(sample_data)

\* list_resources: one Resource per table
ResourceOf(table) ==
    [uri |-> <<"mysql://", table[1], "/", "schema">>,
     name |-> <<"Table: ", table[1]>>,
     mimeType |-> "application/json",
     description |-> <<"Table schema, create statement and sample data: ", table[1]>>]

Resources(tables) == [i \in 1..Len(tables) |-> ResourceOf(tables[i])]

\* mcp.types.TextContent with keywords kw: a block needs type="text" and text
TextContentValid(kw) ==
    /\ {"type", "text"} \subseteq DOMAIN kw
    /\ kw.type = "text"

\* return [TextContent(...)] with keywords kw
TextContentList(kw) ==
    IF TextContentValid(kw)
    THEN Return(<<kw>>)
    ELSE Raise(Exc("ValidationError", <<"TextContent: type, text: Field required">>))

\* an except clause that returns an empty list
ListExceptEmpty(e) == Return(<<>>)

\* ------------------------------------------------------------ except clauses
\* list_resources: raise RuntimeError(f"Failed to list resources: {e}")
ListExcept(e) == Raise(Exc("RuntimeError", <<"Failed to list resources: ">> \o e.text))

\* an except clause that raises, as the one of list_resources does
ReadExceptRaises(e) == Raise(Exc("RuntimeError", <<"Failed to read resource: ">> \o e.text))

\* read_resource: return f"Error: {e}"
ReadExcept(e) == Return(<<"Error: ">> \o e.text)

\* call_tool: return [TextContent(content=str(e), mimeType="text/plain")]
CallExcept(e) == TextContentList([content |-> e.text, mimeType |-> "text/plain"])

\* the outcome of a handler whose try block ended with outcome out:
\* an Exception is handled by the except clause, a return and a
\* cancellation (a BaseException) pass through
ListOutcome(out) == IF out.kind = "raise" THEN ListExcept(out.err) ELSE out
ReadOutcome(out) == IF out.kind = "raise" THEN ReadExcept(out.err) ELSE out
CallOutcome(out) == IF out.kind = "raise" THEN CallExcept(out.err) ELSE out

HandlerOutcome(op, out) ==
    CASE op = "list_resources" -> ListOutcome(out)
      [] op = "read_resource"  -> ReadOutcome(out)
      [] OTHER                 -> CallOutcome(out)

\* ------------------------------------------------------------ requests
\* the handler is suspended at a statement, inside the scope of its lease
StatementPcs == {"show_tables", "describe", "show_create", "select_sample", "execute"}

\* a body that uses one shared connection instead of the leased one
AsConnShared(c) == 1

\* async with db_pool.acquire() as conn: the connection the body uses
AsConn(c) == c

\* a scope that is left without returning the lease
ScopeExitLeak(p, c) == p

\* a scope whose exit drops the connection from the pool
ScopeExitDiscard(p, c) == [p EXCEPT !.used = @ \ {c}, !.conns = @ \ {c}]

\* the exit of the async with block returns the lease
ScopeExit(p, c) == PoolRelease(p, c)

\* a request arrives and its handler runs up to its try block: it raises
\* there or goes on to acquire
Begin(r, rq) ==
    /\ lpc = "serving"
    /\ pc[r] = "none"
    /\ req' = [req EXCEPT ![r] = rq]
    /\ IF Check(rq) = NoRes
       THEN /\ pc' = [pc EXCEPT ![r] = "acquire"]
            /\ res' = res
       ELSE /\ pc' = [pc EXCEPT ![r] = "done"]
            /\ res' = [res EXCEPT ![r] = Check(rq)]
    /\ UNCHANGED <<env, lpc, db_config, pool, conn, acc>>

\* the handler ends without having leased a connection
Finish(r, out) ==
    /\ pc' = [pc EXCEPT ![r] = "done"]
    /\ res' = [res EXCEPT ![r] = HandlerOutcome(req[r].op, out)]
    /\ UNCHANGED <<env, lpc, db_config, pool, req, conn, acc>>

\* await db_pool.acquire(): fails on a closing pool, leases an idle or a
\* new connection, fails when the new connection cannot be opened, and
\* otherwise stays suspended
AcquireStep(r, op, first) ==
    /\ pc[r] = "acquire"
    /\ req[r].op = op
    /\ \/ /\ pool.closing
          /\ Finish(r, Raise(PoolClosedError))
       \/ /\ ~pool.closing
          /\ \E c \in PoolLeasable(pool) :
               \/ /\ pool' = PoolLease(pool, c)
                  /\ conn' = [conn EXCEPT ![r] = AsConn(c)]
                  /\ pc' = [pc EXCEPT ![r] = first]
                  /\ UNCHANGED <<env, lpc, db_config, req, acc, res>>
               \/ /\ c \notin pool.conns
                  /\ Finish(r, Raise(ConnError))

\* a body that, when it fails, returns its lease and acquires again
EndBodyRetry(r, out) ==
    /\ pool' = ScopeExit(pool, conn[r])
    /\ conn' = [conn EXCEPT ![r] = 0]
    /\ acc' = [acc EXCEPT ![r] = <<>>]
    /\ IF out.kind = "raise"
       THEN /\ pc' = [pc EXCEPT ![r] = "acquire"]
            /\ res' = res
       ELSE /\ pc' = [pc EXCEPT ![r] = "done"]
            /\ res' = [res EXCEPT ![r] = HandlerOutcome(req[r].op, out)]
    /\ UNCHANGED <<env, lpc, db_config, req>>

\* the body of the try block ends with outcome out: the scope of the lease
\* is left, the except clause applies, and the handler ends
EndBody(r, out) ==
    /\ pool' = ScopeExit(pool, conn[r])
    /\ conn' = [conn EXCEPT ![r] = 0]
    /\ acc' = [acc EXCEPT ![r] = <<>>]
    /\ res' = [res EXCEPT ![r] = HandlerOutcome(req[r].op, out)]
    /\ pc' = [pc EXCEPT ![r] = "done"]
    /\ UNCHANGED <<env, lpc, db_config, req>>

\* ---- list_resources
ListStart(r) == \E rq \in ListReqs : Begin(r, rq)

\* a list_resources request while no other request is in flight
SeqListStart(r) ==
    /\ \A q \in Reqs : pc[q] = "none"
    /\ \E rq \in ListReqs : Begin(r, rq)

ListAcquire(r) == AcquireStep(r, "list_resources", "show_tables")

\* cursor.execute("SHOW TABLES"); cursor.fetchall(); build the resources
ShowTables(r) ==
    /\ pc[r] = "show_tables"
    /\ \/ \E tables \in TableLists : EndBody(r, Return(Resources(tables)))
       \/ EndBody(r, Raise(DbError))

\* ---- read_resource
ReadStart(r) == \E rq \in SomeReadReqs : Begin(r, rq)

\* a read_resource request, of any uri, while no other request is in flight
SeqReadStart(r) ==
    /\ \A q \in Reqs : pc[q] = "none"
    /\ \E rq \in ReadReqs : Begin(r, rq)

ReadAcquire(r) == AcquireStep(r, "read_resource", "describe")

\* cursor.execute(f"DESCRIBE {table_name}"); columns = cursor.fetchall()
Describe(r) ==
    /\ pc[r] = "describe"
    /\ \/ \E columns \in ColumnSets :
            /\ acc' = [acc EXCEPT ![r] = <<columns>>]
            /\ pc' = [pc EXCEPT ![r] = "show_create"]
            /\ UNCHANGED <<env, lpc, db_config, pool, req, conn, res>>
       \/ EndBody(r, Raise(DbError))

\* cursor.execute(f"SHOW CREATE TABLE {table_name}"); fetchone()[1]
ShowCreate(r) ==
    /\ pc[r] = "show_create"
    /\ \/ \E row \in CreateRows :
            /\ acc' = [acc EXCEPT ![r] = Append(@, row[2])]
            /\ pc' = [pc EXCEPT ![r] = "select_sample"]
            /\ UNCHANGED <<env, lpc, db_config, pool, req, conn, res>>
       \/ EndBody(r, Raise(DbError))

\* cursor.execute(f"SELECT * FROM {table_name} LIMIT 5"); fetchall(); render
SelectSample(r) ==
    /\ pc[r] = "select_sample"
    /\ \/ \E sample_data \in SampleSets :
            EndBody(r, Return(Schema(TableName(req[r]), acc[r][1], acc[r][2], sample_data)))
       \/ EndBody(r, Raise(DbError))

\* ---- call_tool
CallStart(r) == \E rq \in SomeCallReqs : Begin(r, rq)

\* a call_tool request, of any name and sql, while no other request is in flight
SeqCallStart(r) ==
    /\ \A q \in Reqs : pc[q] = "none"
    /\ \E rq \in CallReqs : Begin(r, rq)

CallAcquire(r) == AcquireStep(r, "call_tool", "execute")

\* cursor.execute(sql); cursor.fetchall(); render the table
Execute(r) ==
    /\ pc[r] = "execute"
    /\ \/ \E q \in QueryResults :
            EndBody(r, TextContentList(
                [type |-> "text",
                 text |-> Render([j \in 1..Len(q.description) |-> q.description[j][1]],
                                 q.rows)]))
       \/ EndBody(r, Raise(DbError))
       \/ EndBody(r, Raise(NoDescription))

\* ---- the caller
\* the caller abandons the request: CancelledError at the suspension point
Cancel(r) ==
    \/ /\ pc[r] = "acquire"
       /\ Finish(r, Cancelled)
    \/ /\ pc[r] \in StatementPcs
       /\ EndBody(r, Cancelled)

\* the response is delivered and the slot is free for the next request
Deliver(r) ==
    /\ pc[r] = "done"
    /\ pc' = [pc EXCEPT ![r] = "none"]
    /\ req' = [req EXCEPT ![r] = NoReq]
    /\ res' = [res EXCEPT ![r] = NoRes]
    /\ UNCHANGED <<env, lpc, db_config, pool, conn, acc>>

\* the steps of the lifespan
Lifespan ==
    \/ GetDbConfig
    \/ CreatePool
    \/ LifespanClose
    \/ WaitClosed

\* the steps of a handler after its start
Handle(r) ==
    \/ ListAcquire(r)
    \/ ShowTables(r)
    \/ ReadAcquire(r)
    \/ Describe(r)
    \/ ShowCreate(r)
    \/ SelectSample(r)
    \/ CallAcquire(r)
    \/ Execute(r)
    \/ Cancel(r)
    \/ Deliver(r)

\* requests arrive concurrently
Next ==
    \/ Lifespan
    \/ \E r \in Reqs : ListStart(r)
    \/ \E r \in Reqs : ReadStart(r)
    \/ \E r \in Reqs : CallStart(r)
    \/ \E r \in Reqs : Handle(r)

Spec == Init /\ [][Next]_vars

\* requests arrive one after the other, with any input
SeqNext ==
    \/ Lifespan
    \/ \E r \in Reqs : SeqListStart(r)
    \/ \E r \in Reqs : SeqReadStart(r)
    \/ \E r \in Reqs : SeqCallStart(r)
    \/ \E r \in Reqs : Handle(r)

SeqSpec == Init /\ [][SeqNext]_vars

\* the runs in which requests wait for a lease: the configuration is
\* complete and the pool is smaller than the number of concurrent requests
FairInit ==
    /\ Init
    /\ ConfigComplete(env)
    /\ \E n \in env.pool_size : n < NumReq

\* the requests that reach acquire
FairReadStart(r) == \E rq \in {x \in SomeReadReqs : Check(x) = NoRes} : Begin(r, rq)
FairCallStart(r) == \E rq \in {x \in SomeCallReqs : Check(x) = NoRes} : Begin(r, rq)

FairNext ==
    \/ Lifespan
    \/ \E r \in Reqs : ListStart(r)
    \/ \E r \in Reqs : FairReadStart(r)
    \/ \E r \in Reqs : FairCallStart(r)
    \/ \E r \in Reqs : Handle(r)

\* every database operation terminates, and a request suspended in acquire
\* is served when connections keep coming back
Fairness ==
    \A r \in Reqs :
        /\ WF_vars(ShowTables(r) \/ Describe(r) \/ ShowCreate(r)
                   \/ SelectSample(r) \/ Execute(r))
        /\ SF_vars(ListAcquire(r) \/ ReadAcquire(r) \/ CallAcquire(r))

FairSpec == FairInit /\ [][FairNext]_vars /\ Fairness

\* ------------------------------------------------------------ properties
\* the pool exists
PoolOpened == lpc \in {"serving", "wait_closed", "closed"}

\* maxConnections: MYSQL_POOL_SIZE, or its default
MaxConnections == db_config.pool_size

\* the requests that hold a lease
Holders == {r \in Reqs : conn[r] # 0}

\* every connection of the pool is leased and the pool cannot grow
Exhausted ==
    /\ lpc = "serving"
    /\ pool.free = {}
    /\ Cardinality(pool.used) = MaxConnections

\* C1: whatever the configuration and the interleaving of the requests, at
\* most maxConnections connections are leased at the same time, and the
\* leased plus the idle connections are at most maxConnections.
C1_LeasesBounded ==
    PoolOpened =>
        /\ Cardinality(pool.used) <= MaxConnections
        /\ Cardinality(Holders) <= MaxConnections
        /\ Cardinality(pool.used \cup pool.free) <= MaxConnections

\* C1 witness: all maxConnections connections are leased, each by a request
C1_Witness ==
    /\ PoolOpened
    /\ Cardinality(pool.used) = MaxConnections
    /\ Cardinality(Holders) = MaxConnections

\* C2: a pooled connection is idle or leased, never both; a leased
\* connection is held by exactly one request, and no two requests run
\* statements on the same connection.
C2_ExclusiveLease ==
    /\ pool.free \cap pool.used = {}
    /\ pool.free \cup pool.used = pool.conns
    /\ \A r \in Reqs : pc[r] \in StatementPcs <=> conn[r] # 0
    /\ \A r \in Holders : conn[r] \in pool.used
    /\ \A r1, r2 \in Holders : conn[r1] = conn[r2] => r1 = r2
    /\ \A c \in pool.used : \E r \in Holders : conn[r] = c

\* C2 witness: two requests run statements at the same time
C2_Witness ==
    \E r1, r2 \in Reqs :
        /\ r1 # r2
        /\ pc[r1] \in StatementPcs
        /\ pc[r2] \in StatementPcs
        /\ pool.free = {}

\* C3: when a request that holds a lease ends, by return, by a database
\* error or by cancellation, its connection is idle again.
C3_LeaseReturned ==
    [][\A r \in Reqs :
         (conn[r] # 0 /\ pc'[r] \notin StatementPcs) =>
             /\ conn[r] \in pool'.free
             /\ conn[r] \notin pool'.used
             /\ conn'[r] = 0]_vars

\* C3 witness: a list_resources request ended by a database error and the
\* pool has all its connections idle
C3_Witness ==
    \E r \in Reqs :
        /\ pc[r] = "done"
        /\ req[r].op = "list_resources"
        /\ res[r] = ListExcept(DbError)
        /\ pool.used = {}
        /\ pool.free # {}

\* request r is suspended in acquire
Waiting(r) == pc[r] = "acquire"

\* C4: with all maxConnections connections leased, a request that reaches
\* acquire stays suspended (it leaves acquire only if its caller cancels
\* it), and it later holds a connection unless the pool closes or it is
\* cancelled first.
C4_WaitThenProceed ==
    /\ [][\A r \in Reqs :
            (Waiting(r) /\ Exhausted /\ pc'[r] # "acquire") =>
                (pc'[r] = "done" /\ res'[r] = Cancelled)]_vars
    /\ \A r \in Reqs :
         (Waiting(r) /\ Exhausted) ~>
             (conn[r] # 0 \/ pool.closing \/ (pc[r] = "done" /\ res[r] = Cancelled))

\* C4 witness: a request is suspended in acquire while every connection of
\* the pool is leased
C4_Witness ==
    \E r \in Reqs : Waiting(r) /\ Exhausted /\ ~pool.closing

\* pool.close() has been called
CloseCalled == lpc \in {"wait_closed", "closed"}

\* C5: the shutdown completes only when no connection is leased, and then
\* every connection of the pool has been released.
C5_CloseWaitsForLeases ==
    lpc = "closed" =>
        /\ pool.used = {}
        /\ Holders = {}
        /\ pool.conns = {}
        /\ pool.free = {}

\* C5 witness: close has started while a connection is still leased
C5_Witness ==
    /\ lpc = "wait_closed"
    /\ pool.used # {}
    /\ Holders # {}

\* C6: once close has been called no request obtains a lease, and a request
\* that leaves acquire ends without one: its acquire failed with PoolClosed
\* (or its caller cancelled it).
C6_NoLeaseAfterClose ==
    [][CloseCalled =>
         \A r \in Reqs :
            /\ conn'[r] # 0 => conn'[r] = conn[r]
            /\ (Waiting(r) /\ pc'[r] # "acquire") =>
                  /\ pc'[r] = "done"
                  /\ res'[r] \in {HandlerOutcome(req[r].op, Raise(PoolClosedError)),
                                  Cancelled}]_vars

\* C6 witness: a list_resources request reached acquire after close and
\* ended with the PoolClosed error
C6_Witness ==
    \E r \in Reqs :
        /\ CloseCalled
        /\ pc[r] = "done"
        /\ req[r].op = "list_resources"
        /\ res[r] = ListExcept(PoolClosedError)

\* the statement without its leading whitespace
Whitespace == {" ", "\t", "\n", "\r"}

RECURSIVE LStrip(_)
LStrip(s) ==
    IF Len(s) > 0 /\ s[1] \in Whitespace THEN LStrip(Tail(s)) ELSE s

\* the allow-list as the specification words it: the trimmed statement
\* begins, whatever the case, with select, show or describe
ReadVerbPrefix(sql) ==
    \E verb \in {sSelect, sShow, sDescribe} : StartsWith(Lower(LStrip(sql)), verb)

\* slot r holds a call of the query tool that carries an sql string
IsQuery(r) ==
    /\ req[r].op = "call_tool"
    /\ req[r].name = "query"
    /\ req[r].has_sql

\* the request of slot r was rejected before its try block with error e
RejectedWith(r, e) ==
    /\ pc[r] = "done"
    /\ conn[r] = 0
    /\ res[r] = Raise(e)

\* C7 as stated: every sql string that does not begin with a read verb is
\* rejected with WriteRejected, without a lease and without a statement.
C7_AsStated ==
    \A r \in Reqs :
        (IsQuery(r) /\ ~ReadVerbPrefix(req[r].sql)) => RejectedWith(r, WriteRejected)

\* C7 amended: every non-empty sql string that does not begin with a read
\* verb is rejected with WriteRejected, and the empty string with
\* EmptyQuery; either way without a lease and without a statement.
C7_WritesRejected ==
    \A r \in Reqs :
        (IsQuery(r) /\ ~ReadVerbPrefix(req[r].sql)) =>
            IF req[r].sql = <<>>
            THEN RejectedWith(r, EmptyQuery)
            ELSE RejectedWith(r, WriteRejected)

\* C7 witness: DROP was rejected with WriteRejected
C7_Witness ==
    \E r \in Reqs :
        /\ IsQuery(r)
        /\ req[r].sql = <<"d","r","o","p">>
        /\ RejectedWith(r, WriteRejected)

\* C8 as stated: a non-empty sql string whose trimmed text begins with a
\* read verb passes validation: it is never rejected before the try block.
C8_AsStated ==
    \A r \in Reqs :
        (IsQuery(r) /\ req[r].sql # <<>> /\ ReadVerbPrefix(req[r].sql)) =>
            /\ ~RejectedWith(r, WriteRejected)
            /\ ~RejectedWith(r, EmptyQuery)

\* C9 as stated: an accepted query that was not cancelled ends with a
\* returned list of one well-formed text content block.
C9_AsStated ==
    \A r \in Reqs :
        (/\ req[r].op = "call_tool"
         /\ pc[r] = "done"
         /\ Check(req[r]) = NoRes
         /\ res[r] # Cancelled) =>
            /\ res[r].kind = "return"
            /\ Len(res[r].value) = 1
            /\ TextContentValid(res[r].value[1])

\* the texts read_resource returns for a failure
ErrorTexts == {<<"Error: ">> \o e.text : e \in {DbError, ConnError, PoolClosedError}}

\* the complete schema documents of a request
FullSchemas(rq) ==
    {Schema(TableName(rq), columns, row[2], sample_data) :
        columns \in ColumnSets, row \in CreateRows, sample_data \in SampleSets}

\* C10: a read_resource request on a valid uri that ends without being
\* cancelled returns; it returns the error text when acquire or one of its
\* three statements failed, and a complete schema document only after the
\* third statement.
C10_ReadReturnsErrorText ==
    [][\A r \in Reqs :
         (req[r].op = "read_resource" /\ pc[r] # "done" /\ pc'[r] = "done") =>
             \/ res'[r] = Cancelled
             \/ /\ res'[r].kind = "return"
                /\ \/ res'[r].value \in ErrorTexts
                   \/ /\ pc[r] = "select_sample"
                      /\ res'[r].value \in FullSchemas(req[r])]_vars

\* C10 witness: a read_resource request ended by a database error and
\* returned its text
C10_Witness ==
    \E r \in Reqs :
        /\ req[r].op = "read_resource"
        /\ pc[r] = "done"
        /\ res[r] = Return(<<"Error: ">> \o DbError.text)

\* the uri of a descriptor names the table: mysql://<table>/schema
DescribesTable(resource, table) ==
    /\ resource.uri = <<"mysql://", table[1], "/", "schema">>
    /\ resource.name = <<"Table: ", table[1]>>
    /\ resource.mimeType = "application/json"

\* the list holds one descriptor per table, in the order of the tables
OnePerTable(value, tables) ==
    /\ Len(value) = Len(tables)
    /\ \A i \in 1..Len(tables) : DescribesTable(value[i], tables[i])

\* C11: a list_resources request that is not cancelled returns only after
\* SHOW TABLES, with one descriptor per table in the database's order; when
\* acquire or the statement fails it raises, and returns no list.
C11_ListOrRaise ==
    [][\A r \in Reqs :
         (req[r].op = "list_resources" /\ pc[r] # "done" /\ pc'[r] = "done") =>
             \/ res'[r] = Cancelled
             \/ /\ res'[r].kind = "raise"
                /\ res'[r].err.type = "RuntimeError"
             \/ /\ res'[r].kind = "return"
                /\ pc[r] = "show_tables"
                /\ \E tables \in TableLists : OnePerTable(res'[r].value, tables)]_vars

\* C11 witness: list_resources returned the descriptors of two tables
C11_Witness ==
    \E r \in Reqs :
        /\ req[r].op = "list_resources"
        /\ pc[r] = "done"
        /\ res[r].kind = "return"
        /\ Len(res[r].value) = 2

\* the uri is mysql://<table>/schema for a table name without a slash
HasSchemaShape(uri) ==
    \E n \in 0..Len(uri) :
        /\ Len(uri) = Len(sMysql) + n + 1 + Len(SCHEMA_PATH)
        /\ SubSeq(uri, 1, Len(sMysql)) = sMysql
        /\ \A i \in 1..n : uri[Len(sMysql) + i] # "/"
        /\ uri[Len(sMysql) + n + 1] = "/"
        /\ SubSeq(uri, Len(sMysql) + n + 2, Len(uri)) = SCHEMA_PATH

\* C12: read_resource proceeds to the database only for a uri of the shape
\* mysql://<table>/schema; every other uri ends the request with a raised
\* ValueError, no lease taken and no statement issued.
C12_OnlySchemaUris ==
    \A r \in Reqs :
        req[r].op = "read_resource" =>
            IF HasSchemaShape(req[r].uri)
            THEN ~(res[r].kind = "raise")
            ELSE /\ pc[r] = "done"
                 /\ conn[r] = 0
                 /\ acc[r] = <<>>
                 /\ res[r].kind = "raise"
                 /\ res[r].err.type = "ValueError"

\* C12 witness: mysql://t/data was rejected for its schema path
C12_Witness ==
    \E r \in Reqs :
        /\ req[r].op = "read_resource"
        /\ req[r].uri = sMysql \o <<"t", "/", "d", "a", "t", "a">>
        /\ pc[r] = "done"
        /\ conn[r] = 0
        /\ res[r] = Raise(InvalidSchemaPath(<<"d", "a", "t", "a">>))

\* slot r holds a call of the query tool, with or without sql
IsQueryCall(r) == req[r].op = "call_tool" /\ req[r].name = "query"

\* the sql argument is absent, empty or made of whitespace only
BlankSql(rq) == ~rq.has_sql \/ LStrip(rq.sql) = <<>>

\* C13 as stated: a query whose sql is missing, empty or blank fails with
\* EmptyQuery.
C13_AsStated ==
    \A r \in Reqs :
        (IsQueryCall(r) /\ BlankSql(req[r])) => RejectedWith(r, EmptyQuery)

\* C13: a query whose sql is missing or empty fails with EmptyQuery, and one
\* whose sql is whitespace only fails with WriteRejected; in both cases the
\* request ends before any lease is taken.
C13_MissingOrEmptyRejected ==
    \A r \in Reqs :
        (IsQueryCall(r) /\ BlankSql(req[r])) =>
            IF ~req[r].has_sql \/ req[r].sql = <<>>
            THEN RejectedWith(r, EmptyQuery)
            ELSE RejectedWith(r, WriteRejected)

\* C13 witness: a query without the sql argument was rejected
C13_Witness ==
    \E r \in Reqs :
        /\ IsQueryCall(r)
        /\ ~req[r].has_sql
        /\ RejectedWith(r, EmptyQuery)

\* C14: a call_tool request naming any tool other than query ends with a
\* raised "Tool '<name>' not found." error whatever its arguments, with no
\* lease taken and no statement issued.
C14_UnknownToolRejected ==
    \A r \in Reqs :
        (req[r].op = "call_tool" /\ req[r].name # "query") =>
            /\ pc[r] = "done"
            /\ conn[r] = 0
            /\ acc[r] = <<>>
            /\ res[r].kind = "raise"
            /\ res[r].err.type = "ValueError"
            /\ res[r].err.text = <<"Tool '", req[r].name, "' not found.">>

\* C14 witness: an unknown tool was rejected although its sql was a read
\* statement
C14_Witness ==
    \E r \in Reqs :
        /\ req[r].op = "call_tool"
        /\ req[r].name = "other"
        /\ req[r].has_sql
        /\ req[r].sql = sSelect
        /\ pc[r] = "done"
        /\ res[r].kind = "raise"

\* the outcome o of a request with operation op is a failure
Failure(op, o) ==
    \/ o.kind \in {"raise", "cancelled"}
    \/ /\ op = "read_resource"
       /\ o.kind = "return"
       /\ Len(o.value) > 0
       /\ o.value[1] = "Error: "

\* C15: the step in which a request ends in failure, in validation or in
\* execution, neither closes the pool nor removes a connection from it,
\* returns the lease of the failing request and of no other, and changes
\* nothing of the other requests: their leases, positions, intermediate
\* results and outcomes stay as they were.
C15_FailureFrame ==
    [][\A r \in Reqs :
         (pc[r] # "done" /\ pc'[r] = "done" /\ Failure(req'[r].op, res'[r])) =>
             /\ pool = NoPool <=> pool' = NoPool
             /\ pool # NoPool =>
                  /\ pool'.closing = pool.closing
                  /\ pool'.closed = pool.closed
                  /\ pool'.maxsize = pool.maxsize
                  /\ pool.conns \subseteq pool'.conns
                  /\ pool'.used = pool.used \ {conn[r]}
                  /\ conn[r] # 0 => conn[r] \in pool'.free
             /\ \A q \in Reqs \ {r} :
                  /\ req'[q] = req[q]
                  /\ pc'[q] = pc[q]
                  /\ conn'[q] = conn[q]
                  /\ acc'[q] = acc[q]
                  /\ res'[q] = res[q]]_vars

\* C15 witness: a request has failed in execution while another one is
\* suspended at a statement with its lease
C15_Witness ==
    \E r, q \in Reqs :
        /\ r # q
        /\ pc[r] = "done"
        /\ res[r].kind = "raise"
        /\ res[r].err.type = "RuntimeError"
        /\ pc[q] \in StatementPcs
        /\ conn[q] \in pool.used

\* the positions a handler may move to from position p
NextPcs(op, p) ==
    CASE p = "none"          -> {"acquire", "done"}
      [] p = "acquire"       -> {"done"} \cup
                                (CASE op = "list_resources" -> {"show_tables"}
                                   [] op = "read_resource"  -> {"describe"}
                                   [] OTHER                 -> {"execute"})
      [] p = "describe"      -> {"show_create", "done"}
      [] p = "show_create"   -> {"select_sample", "done"}
      [] p = "done"          -> {"none"}
      [] OTHER               -> {"done"}

\* C16: a request acquires at most one lease and never goes back to acquire;
\* read_resource issues column metadata, creation statement and sample rows
\* in that order on the one leased connection, each later statement only
\* after the earlier one has delivered its result.
C16_OneLeaseInOrder ==
    [][\A r \in Reqs :
         /\ pc'[r] # pc[r] => pc'[r] \in NextPcs(req'[r].op, pc[r])
         /\ conn'[r] # conn[r] =>
              \/ pc[r] = "acquire" /\ conn[r] = 0 /\ pc'[r] \in StatementPcs
              \/ pc[r] \in StatementPcs /\ conn'[r] = 0 /\ pc'[r] = "done"
         /\ pc'[r] \in StatementPcs => conn'[r] # 0
         /\ pc'[r] = "describe" => acc'[r] = <<>>
         /\ pc'[r] = "show_create" =>
              Len(acc'[r]) = 1 /\ acc'[r][1] \in ColumnSets
         /\ pc'[r] = "select_sample" =>
              /\ Len(acc'[r]) = 2
              /\ acc'[r][1] = acc[r][1]
              /\ \E row \in CreateRows : acc'[r][2] = row[2]]_vars

\* C16 witness: read_resource is at its third statement, holding its lease
\* and the results of the first two
C16_Witness ==
    \E r \in Reqs :
        /\ req[r].op = "read_resource"
        /\ pc[r] = "select_sample"
        /\ conn[r] \in pool.used
        /\ Len(acc[r]) = 2

\* one of the three required settings is missing or empty
RequiredMissing(e) ==
    \E v \in {e.user, e.password, e.db} : v = "<unset>" \/ v = ""

\* C17: once the configuration has been examined, startup has failed, with
\* no pool created, no connection opened and no request served, exactly when
\* the username, the password or the database name is missing or empty;
\* otherwise the check has passed and the configuration holds the three
\* values of the environment.
C17_ConfigChecked ==
    lpc # "get_db_config" =>
        IF RequiredMissing(env)
        THEN /\ lpc = "config_invalid"
             /\ db_config = NoConfig
             /\ pool = NoPool
             /\ \A r \in Reqs : pc[r] = "none" /\ conn[r] = 0
        ELSE /\ lpc # "config_invalid"
             /\ db_config.user = env.user
             /\ db_config.password = env.password
             /\ db_config.db = env.db

\* C17 witness: startup failed with username and password set and an empty
\* database name
C17_Witness ==
    /\ env.user = "x"
    /\ env.password = "x"
    /\ env.db = ""
    /\ lpc = "config_invalid"
    /\ pool = NoPool

\* the text cut after each line terminator
RECURSIVE LinesOf(_)
LinesOf(text) ==
    IF text = <<>> THEN <<>>
    ELSE IF \E i \in 1..Len(text) : text[i] = " |\n"
         THEN LET k == CHOOSE i \in 1..Len(text) :
                         text[i] = " |\n" /\ \A j \in 1..(i-1) : text[j] # " |\n"
              IN <<SubSeq(text, 1, k)>> \o LinesOf(SubSeq(text, k+1, Len(text)))
         ELSE <<text>>

\* line is one table line holding exactly the cells, in their order
IsLineOf(line, cells) ==
    /\ Len(line) = IF Len(cells) = 0 THEN 2 ELSE 2 * Len(cells) + 1
    /\ line[1] = "| "
    /\ line[Len(line)] = " |\n"
    /\ \A i \in 1..Len(cells) :
         /\ line[2 * i] = cells[i]
         /\ i < Len(cells) => line[2 * i + 1] = " | "

\* text is a header line, a separator line with one --- per column and one
\* data line per row, in the order of the rows, and nothing else
IsTable(text, columns, rows) ==
    LET L == LinesOf(text)
    IN /\ Len(L) = 2 + Len(rows)
       /\ IsLineOf(L[1], columns)
       /\ IsLineOf(L[2], [j \in 1..Len(columns) |-> "---"])
       /\ \A i \in 1..Len(rows) :
            IsLineOf(L[2 + i], [j \in 1..Len(rows[i]) |-> Str(rows[i][j])])

\* the part of a schema document after the heading h
After(doc, h) ==
    LET k == CHOOSE i \in 1..Len(doc) : doc[i] = h
    IN SubSeq(doc, k + 1, Len(doc))

\* a read_resource outcome that is a schema document
IsSchema(o) ==
    /\ o.kind = "return"
    /\ \E i \in 1..Len(o.value) : o.value[i] = "\n### Sample Data:\n\n"

\* C18: the text a query returns, and the sample section of a schema
\* document, is a header line, a separator line with one --- per column and
\* as many data lines as the result has rows, in row order; a result of zero
\* rows gives the header and the separator only.
C18_TableShape ==
    \A r \in Reqs :
        (pc[r] = "done" /\ res[r].kind = "return") =>
            /\ req[r].op = "call_tool" =>
                 \E q \in QueryResults :
                     IsTable(res[r].value[1].text,
                             [j \in 1..Len(q.description) |-> q.description[j][1]],
                             q.rows)
            /\ (req[r].op = "read_resource" /\ IsSchema(res[r])) =>
                 \E columns \in ColumnSets, sample_data \in SampleSets :
                     IsTable(After(res[r].value, "\n### Sample Data:\n\n"),
                             [j \in 1..Len(columns) |-> Str(columns[j][1])],
                             sample_data)

\* C18 witness: a query of two columns and no rows returned two lines
C18_Witness ==
    \E r \in Reqs :
        /\ req[r].op = "call_tool"
        /\ pc[r] = "done"
        /\ res[r].kind = "return"
        /\ Len(LinesOf(res[r].value[1].text)) = 2
        /\ Len(LinesOf(res[r].value[1].text)[2]) = 5

\* the lines of the columns table of a schema document
ColumnsSection(doc) ==
    LET a == CHOOSE i \in 1..Len(doc) :
                 doc[i] = "|-------|------|------|-----|---------|-------|\n"
        b == CHOOSE i \in 1..Len(doc) :
                 doc[i] = "\n### Create Table SQL:\n\n<fence>sql\n"
    IN LinesOf(SubSeq(doc, a + 1, b - 1))

\* the Default cell of a line of the columns table: its fifth cell
DefaultOf(line) == line[10]

\* C20 as stated: in the columns table of a schema document the Default cell
\* is NULL exactly for a column whose default is null, and every other
\* default, the empty string included, appears in its own string form.
C20_AsStated ==
    \A r \in Reqs :
        (req[r].op = "read_resource" /\ pc[r] = "done" /\ IsSchema(res[r])) =>
            \E columns \in ColumnSets :
                LET L == ColumnsSection(res[r].value)
                IN /\ Len(L) = Len(columns)
                   /\ \A i \in 1..Len(columns) :
                        /\ DefaultOf(L[i]) = "NULL" <=> columns[i][5] = NoneV
                        /\ columns[i][5] # NoneV =>
                             DefaultOf(L[i]) = Str(columns[i][5])

\* request r is in flight: suspended in acquire or at a statement
InFlight(r) == pc[r] = "acquire" \/ pc[r] \in StatementPcs

\* C19: a request suspended in acquire holds no lease, and, every database
\* operation terminating and the scheduling being fair, every request in
\* flight eventually completes, however many requests contend for the
\* connections of the pool: a request leaves its flight only as done, and
\* none stays in flight for ever.
C19_EveryRequestCompletes ==
    /\ [](\A r \in Reqs : Waiting(r) => conn[r] = 0)
    /\ [][\A r \in Reqs : (InFlight(r) /\ ~InFlight(r)') => pc'[r] = "done"]_vars
    /\ \A r \in Reqs : []<>(~InFlight(r))

\* C19 witness: more requests are in flight than the pool has connections:
\* one waits for the lease another one holds
C19_Witness ==
    \E r, q \in Reqs :
        /\ r # q
        /\ Waiting(r)
        /\ pc[q] \in StatementPcs
        /\ conn[q] \in pool.used
        /\ PoolLeasable(pool) = {}
        /\ ~pool.closing

====
